---- MODULE Spec2Model ----
(***************************************************************************)
(* Fuzzy diabetes-risk engine: membership functions (membership.py), the   *)
(* variable fuzzifier (fuzzify.py) and the configured rule base (main.py). *)
(* Degrees are exact rationals [num, den] with den > 0; the crisp values   *)
(* of main.py are written in tenths (18.5 is 185) so every number is an    *)
(* integer.                                                                *)
(***************************************************************************)
EXTENDS Integers, Sequences, FiniteSets, TLC

VARIABLES m_pc, inputval, params, kind, result,
          f_pc, value, linguistic_terms, i, fuzzified_values, ret,
          a_pc, values, readings, activation, label

m_vars == <<m_pc, inputval, params, kind, result>>
f_vars == <<f_pc, value, linguistic_terms, i, fuzzified_values, ret>>
a_vars == <<a_pc, values, readings, activation, label>>
vars == <<m_vars, f_vars, a_vars>>

\* ---------------------------------------------------------------- bounds
\* Shape parameters are drawn from 0..MaxParam, crisp inputs from
\* -Margin..MaxParam+Margin, variables have at most MaxTerms entries.
MaxParam == 4
Margin == 2
MaxTerms == 3

ParamVals == 0..MaxParam
InputVals == (0 - Margin)..(MaxParam + Margin)

\* ------------------------------------------------------- exact degrees
Degree(n, d) == [status |-> "ok", num |-> n, den |-> d]
One == Degree(1, 1)
Zero == Degree(0, 1)
ValueError == [status |-> "ValueError"]
ZeroDivisionError == [status |-> "ZeroDivisionError"]
None == [status |-> "None"]

\* Python's true division: raises on a zero divisor.  The quotient is kept
\* with a positive denominator.
Div(n, d) ==
  IF d = 0 THEN ZeroDivisionError
  ELSE IF d < 0 THEN Degree(0 - n, 0 - d)
  ELSE Degree(n, d)

IsOk(r) == r.status = "ok"
Leq(x, y) == x.num * y.den <= y.num * x.den
Eq(x, y) == x.num * y.den = y.num * x.den
Lt(x, y) == x.num * y.den < y.num * x.den

Kinds == {"normal", "left-shoulder", "right-shoulder"}

\* ------------------------------------------------------ membership.py
\* Mutant: the left shoulder without its first test (inputval <= lowval).
left_shoulder_no_low_test(x, lowval, midval, highval) ==
  IF x >= highval THEN Zero
  ELSE IF x <= midval THEN One
  ELSE Div(highval - x, highval - midval)

\* triangular, kind == "left-shoulder"
left_shoulder(x, lowval, midval, highval) ==
  IF x <= lowval THEN One
  ELSE IF x >= highval THEN Zero
  ELSE IF x <= midval THEN One
  ELSE Div(highval - x, highval - midval)

\* Mutant: the right shoulder without its first test (inputval >= highval).
right_shoulder_no_high_test(x, lowval, midval, highval) ==
  IF x <= lowval THEN Zero
  ELSE IF x >= midval THEN One
  ELSE Div(x - lowval, midval - lowval)

\* triangular, kind == "right-shoulder"
right_shoulder(x, lowval, midval, highval) ==
  IF x >= highval THEN One
  ELSE IF x <= lowval THEN Zero
  ELSE IF x >= midval THEN One
  ELSE Div(x - lowval, midval - lowval)

\* Mutant: the rising ramp measured from midval instead of lowval.
normal_falling_left_ramp(x, lowval, midval, highval) ==
  IF x <= lowval \/ x >= highval THEN Zero
  ELSE IF x = midval THEN One
  ELSE IF lowval < x /\ x < midval
       THEN Div(midval - x, midval - lowval)
  ELSE Div(highval - x, highval - midval)

\* Mutant: the normal triangle without its outside test.
normal_no_outside_test(x, lowval, midval, highval) ==
  IF x = midval THEN One
  ELSE IF lowval < x /\ x < midval
       THEN Div(x - lowval, midval - lowval)
  ELSE Div(highval - x, highval - midval)

\* Mutant: the normal triangle tests the peak before the outside test.
normal_peak_test_first(x, lowval, midval, highval) ==
  IF x = midval THEN One
  ELSE IF x <= lowval \/ x >= highval THEN Zero
  ELSE IF lowval < x /\ x < midval
       THEN Div(x - lowval, midval - lowval)
  ELSE Div(highval - x, highval - midval)

\* triangular, kind == "normal"
normal(x, lowval, midval, highval) ==
  IF x <= lowval \/ x >= highval THEN Zero
  ELSE IF x = midval THEN One
  ELSE IF lowval < x /\ x < midval
       THEN Div(x - lowval, midval - lowval)
  ELSE Div(highval - x, highval - midval)

\* Mutant: the left shoulder answers before the parameters are validated.
triangular_late_validation(x, p, k) ==
  IF k = "left-shoulder" /\ x <= p[1] THEN One
  ELSE IF ~(p[1] <= p[2] /\ p[2] <= p[3]) THEN ValueError
  ELSE IF k = "left-shoulder" THEN left_shoulder(x, p[1], p[2], p[3])
  ELSE IF k = "right-shoulder" THEN right_shoulder(x, p[1], p[2], p[3])
  ELSE normal(x, p[1], p[2], p[3])

triangular(x, p, k) ==
  IF ~(p[1] <= p[2] /\ p[2] <= p[3]) THEN ValueError
  ELSE IF k = "left-shoulder" THEN left_shoulder(x, p[1], p[2], p[3])
  ELSE IF k = "right-shoulder" THEN right_shoulder(x, p[1], p[2], p[3])
  ELSE normal(x, p[1], p[2], p[3])

\* Mutant: the plateau test with strict comparisons.
trapezoidal_open_plateau(x, p) ==
  LET a == p[1]
      b == p[2]
      c == p[3]
      d == p[4]
  IN IF ~(a <= b /\ b <= c /\ c <= d) THEN ValueError
     ELSE IF x < a \/ x > d THEN Zero
     ELSE IF a < x /\ x < b THEN (IF a = b THEN One ELSE Div(x - a, b - a))
     ELSE IF b < x /\ x < c THEN One
     ELSE IF c < x /\ x < d THEN (IF c = d THEN One ELSE Div(d - x, d - c))
     ELSE IF x = a /\ a = b THEN One
     ELSE IF x = d /\ c = d THEN One
     ELSE Zero

trapezoidal(x, p) ==
  LET a == p[1]
      b == p[2]
      c == p[3]
      d == p[4]
  IN IF ~(a <= b /\ b <= c /\ c <= d) THEN ValueError
     ELSE IF x < a \/ x > d THEN Zero
     ELSE IF a < x /\ x < b THEN (IF a = b THEN One ELSE Div(x - a, b - a))
     ELSE IF b <= x /\ x <= c THEN One
     ELSE IF c < x /\ x < d THEN (IF c = d THEN One ELSE Div(d - x, d - c))
     ELSE IF x = a /\ a = b THEN One
     ELSE IF x = d /\ c = d THEN One
     ELSE Zero

\* --------------------------------------------------------- fuzzify.py
fuzzify(x, membership_func, membership_params, k) ==
  IF membership_func = "triangular"
  THEN triangular(x, membership_params, k)
  ELSE trapezoidal(x, membership_params)

\* An ordered mapping (a Python dict) is a sequence of [label, params]
\* entries with distinct labels, in insertion order.
keys(terms) == [j \in 1..Len(terms) |-> terms[j].label]
lookup(terms, term) ==
  terms[CHOOSE j \in 1..Len(terms) : terms[j].label = term].params
NotRange(t) == t # "range"

\* term_labels = [t for t in linguistic_terms.keys() if t != "range"]
term_labels(terms) == SelectSeq(keys(terms), NotRange)

\* Mutant: the last position is taken for every position but the first.
kind_at_no_normal(idx, n) ==
  IF idx = 0 THEN "left-shoulder" ELSE "right-shoulder"

\* The shoulder kind of the term at 0-based position idx of n labels.
kind_at(idx, n) ==
  IF idx = 0 THEN "left-shoulder"
  ELSE IF idx = n - 1 THEN "right-shoulder"
  ELSE "normal"

Mapping(m) == [status |-> "ok", map |-> m]

\* Mutant: a tuple of another length is skipped instead of rejected.
loop_body_skip_bad_length(v, terms, idx, acc) ==
  LET labels == term_labels(terms)
      term == labels[idx + 1]
      p == lookup(terms, term)
      r == IF Len(p) = 3
           THEN fuzzify(v, "triangular", p, kind_at(idx, Len(labels)))
           ELSE fuzzify(v, "trapezoidal", p, "normal")
  IN IF Len(p) = 3 \/ Len(p) = 4
     THEN (IF IsOk(r) THEN Mapping((term :> r) @@ acc) ELSE r)
     ELSE Mapping(acc)

\* One iteration of the for loop: the mapping after it, or the exception.
loop_body(v, terms, idx, acc) ==
  LET labels == term_labels(terms)
      term == labels[idx + 1]
      p == lookup(terms, term)
      r == IF Len(p) = 3
           THEN fuzzify(v, "triangular", p, kind_at(idx, Len(labels)))
           ELSE fuzzify(v, "trapezoidal", p, "normal")
  IN IF Len(p) = 3 \/ Len(p) = 4
     THEN (IF IsOk(r) THEN Mapping((term :> r) @@ acc) ELSE r)
     ELSE ValueError

RECURSIVE fuzzify_loop(_, _, _, _)
fuzzify_loop(v, terms, idx, acc) ==
  IF idx >= Len(term_labels(terms)) THEN Mapping(acc)
  ELSE LET s == loop_body(v, terms, idx, acc)
       IN IF IsOk(s) THEN fuzzify_loop(v, terms, idx + 1, s.map) ELSE s

\* The whole call, for callers that use its value.
fuzzify_variable(v, terms) == fuzzify_loop(v, terms, 0, <<>>)

\* ---------------------------------------------- idle parts of the state
MIdle ==
  /\ m_pc = "idle" /\ inputval = 0 /\ params = <<>> /\ kind = "normal"
  /\ result = None
FIdle ==
  /\ f_pc = "idle" /\ value = 0 /\ linguistic_terms = <<>> /\ i = 0
  /\ fuzzified_values = <<>> /\ ret = None
AIdle ==
  /\ a_pc = "idle" /\ values = <<>> /\ readings = <<>>
  /\ activation = <<>> /\ label = "None"

\* ------------------------------------------- membership evaluation runs
Triples == {<<x, y, z>> : x \in ParamVals, y \in ParamVals, z \in ParamVals}
Quads == {<<w, x, y, z>> : w \in ParamVals, x \in ParamVals,
                           y \in ParamVals, z \in ParamVals}

MInit ==
  /\ m_pc = "start"
  /\ inputval \in InputVals
  /\ params \in Triples \cup Quads
  /\ kind \in Kinds
  /\ Len(params) = 4 => kind = "normal"
  /\ result = None
  /\ FIdle /\ AIdle

\* One evaluation of a triangular term through fuzzify.
CallTriangular ==
  /\ m_pc = "start" /\ Len(params) = 3
  /\ result' = fuzzify(inputval, "triangular", params, kind)
  /\ m_pc' = "done"
  /\ UNCHANGED <<inputval, params, kind, f_vars, a_vars>>

\* One evaluation of a trapezoidal term through fuzzify.
CallTrapezoidal ==
  /\ m_pc = "start" /\ Len(params) = 4
  /\ result' = fuzzify(inputval, "trapezoidal", params, kind)
  /\ m_pc' = "done"
  /\ UNCHANGED <<inputval, params, kind, f_vars, a_vars>>

\* The same term evaluated again at a larger crisp value.
CallAgain ==
  /\ m_pc = "done"
  /\ \E x \in InputVals :
       /\ x > inputval
       /\ inputval' = x
       /\ result' = fuzzify(x, IF Len(params) = 3 THEN "triangular"
                               ELSE "trapezoidal", params, kind)
  /\ UNCHANGED <<m_pc, params, kind, f_vars, a_vars>>

MNext == CallTriangular \/ CallTrapezoidal \/ CallAgain

\* ------------------------------------------------ fuzzify_variable runs
TermNames == <<"low", "normal", "high", "very_high", "extreme">>
RangeParams == <<0, MaxParam>>
ParamChoices == {<<0, 2, 4>>, <<1, 1, 3>>, <<3, 2, 1>>, <<0, 1, 3, 4>>,
                 <<0, 4>>, <<0, 1, 2, 3, 4>>}
Shapes == UNION {[1..n -> ParamChoices] : n \in 1..MaxTerms}

\* The declared terms named in order, with a "range" entry inserted after
\* the first rp - 1 of them (rp = 0: no "range" entry).
Declare(shapes, rp) ==
  LET named == [j \in 1..Len(shapes) |->
                  [label |-> TermNames[j], params |-> shapes[j]]]
      rng == [label |-> "range", params |-> RangeParams]
  IN IF rp = 0 THEN named
     ELSE SubSeq(named, 1, rp - 1) \o <<rng>>
          \o SubSeq(named, rp, Len(named))

FInit ==
  /\ f_pc = "start"
  /\ value \in InputVals
  /\ \E shapes \in Shapes : \E rp \in 0..(Len(shapes) + 1) :
       linguistic_terms = Declare(shapes, rp)
  /\ i = 0
  /\ fuzzified_values = <<>>
  /\ ret = None
  /\ MIdle /\ AIdle

\* fuzzified_values = {} and the list of labels
FStart ==
  /\ f_pc = "start"
  /\ f_pc' = "loop"
  /\ i' = 0
  /\ fuzzified_values' = <<>>
  /\ UNCHANGED <<value, linguistic_terms, ret, m_vars, a_vars>>

\* An iteration that stores the term's degree.
FIterate ==
  /\ f_pc = "loop"
  /\ i < Len(term_labels(linguistic_terms))
  /\ LET s == loop_body(value, linguistic_terms, i, fuzzified_values)
     IN /\ IsOk(s)
        /\ fuzzified_values' = s.map
        /\ i' = i + 1
  /\ UNCHANGED <<f_pc, value, linguistic_terms, ret, m_vars, a_vars>>

\* An iteration that raises: the call ends with the exception.
FRaise ==
  /\ f_pc = "loop"
  /\ i < Len(term_labels(linguistic_terms))
  /\ LET s == loop_body(value, linguistic_terms, i, fuzzified_values)
     IN /\ ~IsOk(s)
        /\ ret' = s
        /\ f_pc' = "raised"
  /\ UNCHANGED <<value, linguistic_terms, i, fuzzified_values,
                 m_vars, a_vars>>

\* return fuzzified_values
FReturn ==
  /\ f_pc = "loop"
  /\ i >= Len(term_labels(linguistic_terms))
  /\ ret' = Mapping(fuzzified_values)
  /\ f_pc' = "returned"
  /\ UNCHANGED <<value, linguistic_terms, i, fuzzified_values,
                 m_vars, a_vars>>

FNext == FStart \/ FIterate \/ FRaise \/ FReturn

\* ------------------------------------- main.py: the configured system
\* Crisp values in tenths: (10, 15, 18.5) is <<100, 150, 185>>.
Term(l, p) == [label |-> l, params |-> p]

fbs == <<Term("low", <<500, 700, 900>>),
         Term("normal", <<850, 950, 1060>>),
         Term("prediabetic", <<980, 1100, 1220>>),
         Term("diabetic", <<1200, 1500, 1800>>)>>

bmi == <<Term("underweight", <<100, 150, 185>>),
         Term("normal", <<170, 220, 249>>),
         Term("overweight", <<230, 260, 300>>),
         Term("obese", <<280, 350, 450>>)>>

age == <<Term("young", <<150, 250, 350>>),
         Term("middle", <<330, 450, 570>>),
         Term("old", <<530, 650, 770>>),
         Term("very_old", <<720, 800, 900>>)>>

physical_activity == <<Term("low", <<0, 400, 800>>),
                       Term("moderate", <<600, 1100, 1700>>),
                       Term("high", <<1500, 2000, 3000>>)>>

variables == [fbs |-> fbs, bmi |-> bmi, age |-> age,
              physical_activity |-> physical_activity]

\* Mutant: the output terms registered from the highest risk down.
output_terms_high_first ==
  <<Term("high_risk", <<580, 800, 1000>>),
    Term("moderate_risk", <<300, 500, 600>>),
    Term("low_risk", <<0, 200, 400>>)>>

\* The output terms in the order of their add_output_term calls.
output_terms ==
  <<Term("low_risk", <<0, 200, 400>>),
    Term("moderate_risk", <<300, 500, 600>>),
    Term("high_risk", <<580, 800, 1000>>)>>

\* The rules in the order of their add_rule calls.
Rules == <<
  [antecedents |-> <<<<"fbs", "diabetic">>>>,
   consequent |-> "high_risk"],
  [antecedents |-> <<<<"fbs", "prediabetic">>, <<"bmi", "obese">>, <<"age", "old">>>>,
   consequent |-> "high_risk"],
  [antecedents |-> <<<<"fbs", "prediabetic">>, <<"bmi", "obese">>, <<"physical_activity", "low">>>>,
   consequent |-> "high_risk"],
  [antecedents |-> <<<<"bmi", "obese">>, <<"age", "very_old">>, <<"physical_activity", "low">>>>,
   consequent |-> "high_risk"],
  [antecedents |-> <<<<"bmi", "obese">>, <<"age", "old">>, <<"physical_activity", "low">>>>,
   consequent |-> "high_risk"],
  [antecedents |-> <<<<"fbs", "prediabetic">>, <<"bmi", "overweight">>, <<"age", "old">>, <<"physical_activity", "low">>>>,
   consequent |-> "high_risk"],
  [antecedents |-> <<<<"fbs", "prediabetic">>, <<"age", "very_old">>>>,
   consequent |-> "high_risk"],
  [antecedents |-> <<<<"fbs", "prediabetic">>, <<"age", "old">>, <<"physical_activity", "low">>>>,
   consequent |-> "high_risk"],
  [antecedents |-> <<<<"age", "very_old">>, <<"physical_activity", "low">>>>,
   consequent |-> "high_risk"],
  [antecedents |-> <<<<"age", "old">>, <<"bmi", "normal">>, <<"physical_activity", "low">>>>,
   consequent |-> "high_risk"],
  [antecedents |-> <<<<"fbs", "prediabetic">>, <<"bmi", "normal">>, <<"age", "middle">>>>,
   consequent |-> "moderate_risk"],
  [antecedents |-> <<<<"fbs", "prediabetic">>, <<"bmi", "normal">>, <<"age", "young">>>>,
   consequent |-> "moderate_risk"],
  [antecedents |-> <<<<"fbs", "normal">>, <<"bmi", "obese">>, <<"age", "middle">>, <<"physical_activity", "moderate">>>>,
   consequent |-> "moderate_risk"],
  [antecedents |-> <<<<"bmi", "overweight">>, <<"age", "middle">>, <<"physical_activity", "low">>>>,
   consequent |-> "moderate_risk"],
  [antecedents |-> <<<<"bmi", "obese">>, <<"age", "young">>>>,
   consequent |-> "moderate_risk"],
  [antecedents |-> <<<<"age", "old">>, <<"physical_activity", "low">>>>,
   consequent |-> "moderate_risk"],
  [antecedents |-> <<<<"fbs", "prediabetic">>, <<"bmi", "overweight">>, <<"physical_activity", "moderate">>>>,
   consequent |-> "moderate_risk"],
  [antecedents |-> <<<<"age", "old">>, <<"fbs", "normal">>, <<"physical_activity", "low">>>>,
   consequent |-> "moderate_risk"],
  [antecedents |-> <<<<"age", "very_old">>, <<"fbs", "normal">>>>,
   consequent |-> "moderate_risk"],
  [antecedents |-> <<<<"fbs", "prediabetic">>, <<"age", "middle">>>>,
   consequent |-> "moderate_risk"],
  [antecedents |-> <<<<"fbs", "prediabetic">>, <<"bmi", "overweight">>>>,
   consequent |-> "moderate_risk"],
  [antecedents |-> <<<<"fbs", "prediabetic">>, <<"physical_activity", "low">>>>,
   consequent |-> "moderate_risk"],
  [antecedents |-> <<<<"fbs", "prediabetic">>, <<"bmi", "normal">>, <<"physical_activity", "moderate">>>>,
   consequent |-> "moderate_risk"],
  [antecedents |-> <<<<"age", "very_old">>, <<"fbs", "normal">>, <<"physical_activity", "moderate">>>>,
   consequent |-> "moderate_risk"],
  [antecedents |-> <<<<"fbs", "normal">>, <<"bmi", "normal">>, <<"age", "old">>, <<"physical_activity", "moderate">>>>,
   consequent |-> "moderate_risk"],
  [antecedents |-> <<<<"fbs", "normal">>, <<"bmi", "overweight">>, <<"age", "middle">>, <<"physical_activity", "moderate">>>>,
   consequent |-> "moderate_risk"],
  [antecedents |-> <<<<"fbs", "normal">>, <<"bmi", "obese">>, <<"age", "old">>, <<"physical_activity", "moderate">>>>,
   consequent |-> "moderate_risk"],
  [antecedents |-> <<<<"fbs", "normal">>, <<"bmi", "obese">>, <<"age", "old">>, <<"physical_activity", "high">>>>,
   consequent |-> "moderate_risk"],
  [antecedents |-> <<<<"fbs", "low">>, <<"bmi", "obese">>, <<"age", "young">>, <<"physical_activity", "high">>>>,
   consequent |-> "moderate_risk"],
  [antecedents |-> <<<<"fbs", "normal">>, <<"bmi", "normal">>, <<"age", "young">>, <<"physical_activity", "high">>>>,
   consequent |-> "low_risk"],
  [antecedents |-> <<<<"fbs", "normal">>, <<"bmi", "normal">>, <<"age", "young">>>>,
   consequent |-> "low_risk"],
  [antecedents |-> <<<<"fbs", "normal">>, <<"bmi", "normal">>, <<"physical_activity", "high">>>>,
   consequent |-> "low_risk"],
  [antecedents |-> <<<<"fbs", "normal">>, <<"bmi", "normal">>, <<"age", "middle">>>>,
   consequent |-> "low_risk"],
  [antecedents |-> <<<<"physical_activity", "high">>, <<"age", "young">>, <<"fbs", "normal">>>>,
   consequent |-> "low_risk"],
  [antecedents |-> <<<<"physical_activity", "high">>, <<"age", "young">>, <<"bmi", "normal">>>>,
   consequent |-> "low_risk"],
  [antecedents |-> <<<<"fbs", "normal">>, <<"physical_activity", "high">>, <<"age", "young">>, <<"bmi", "normal">>>>,
   consequent |-> "low_risk"],
  [antecedents |-> <<<<"fbs", "low">>>>,
   consequent |-> "low_risk"]
>>

\* ------------------------------------------ the rule engine's assess
\* Firing strength of a rule: the minimum of its antecedents' degrees.
firing_strength(rule, rd) ==
  LET ds == {rd[a[1]][a[2]] : a \in
               {rule.antecedents[j] : j \in 1..Len(rule.antecedents)}}
  IN CHOOSE x \in ds : \A y \in ds : Leq(x, y)

\* Activation of an output term: the maximum strength among its rules.
aggregate(out, rd) ==
  LET ds == {Zero} \cup
            {firing_strength(Rules[j], rd) :
               j \in {h \in 1..Len(Rules) : Rules[h].consequent = out}}
  IN CHOOSE x \in ds : \A y \in ds : Leq(y, x)

\* The label: the first registered output term of maximal activation.
classify(act, outs) ==
  LET best == CHOOSE j \in 1..Len(outs) :
                /\ \A h \in 1..Len(outs) : Leq(act[outs[h].label], act[outs[j].label])
                /\ \A h \in 1..(j - 1) : Lt(act[outs[h].label], act[outs[j].label])
  IN outs[best].label

VariableNames == {"fbs", "bmi", "age", "physical_activity"}
OutputNames == {output_terms[j].label : j \in 1..Len(output_terms)}

FbsSamples == {600, 700, 800, 850, 1000, 1100, 1500}
BmiSamples == {100, 150, 220, 260, 290, 350, 450}
AgeSamples == {150, 250, 450, 650, 750, 800, 900}
ActivitySamples == {0, 400, 700, 1100, 2000, 3000}

AInit ==
  /\ a_pc = "start"
  /\ \E f \in FbsSamples, b \in BmiSamples, g \in AgeSamples,
        w \in ActivitySamples :
       values = [fbs |-> f, bmi |-> b, age |-> g, physical_activity |-> w]
  /\ readings = <<>>
  /\ activation = <<>>
  /\ label = "None"
  /\ MIdle /\ FIdle

\* Every input variable is fuzzified over its registered terms.
AFuzzify ==
  /\ a_pc = "start"
  /\ readings' = [v \in VariableNames |->
                    fuzzify_variable(values[v], variables[v]).map]
  /\ a_pc' = "fuzzified"
  /\ UNCHANGED <<values, activation, label, m_vars, f_vars>>

\* Every rule fires and each output term takes the maximum over its rules.
AEvaluate ==
  /\ a_pc = "fuzzified"
  /\ activation' = [o \in OutputNames |-> aggregate(o, readings)]
  /\ a_pc' = "evaluated"
  /\ UNCHANGED <<values, readings, label, m_vars, f_vars>>

\* The label of the assessment.
AClassify ==
  /\ a_pc = "evaluated"
  /\ \E o \in OutputNames : Lt(Zero, activation[o])
  /\ label' = classify(activation, output_terms)
  /\ a_pc' = "done"
  /\ UNCHANGED <<values, readings, activation, m_vars, f_vars>>

\* No rule fired: the assessment fails.
ANoRule ==
  /\ a_pc = "evaluated"
  /\ \A o \in OutputNames : Eq(Zero, activation[o])
  /\ label' = "InferenceError"
  /\ a_pc' = "failed"
  /\ UNCHANGED <<values, readings, activation, m_vars, f_vars>>

ANext == AFuzzify \/ AEvaluate \/ AClassify \/ ANoRule

\* ---------------------------------------------------- assessment claims
FbsOnlyLow ==
  /\ Lt(Zero, readings.fbs["low"])
  /\ \A t \in DOMAIN readings.fbs : t # "low" => Eq(readings.fbs[t], Zero)

\* C8: with the registered variables, output terms and rules, fbs = 150
\* and any bmi, age and physical_activity inside their domains is
\* classified "high_risk".
C8_Fbs150HighRisk ==
  (a_pc \in {"done", "failed"} /\ values.fbs = 1500) => label = "high_risk"

low == params[1]
mid == params[2]
high == params[3]
TriDone(k) == m_pc = "done" /\ Len(params) = 3 /\ kind = k
TriValid == low <= mid /\ mid <= high
TrapDone == m_pc = "done" /\ Len(params) = 4
TrapValid ==
  params[1] <= params[2] /\ params[2] <= params[3] /\ params[3] <= params[4]
InUnit(r) == IsOk(r) /\ Leq(Zero, r) /\ Leq(r, One)

\* C1, first half: a normal triangle with low < mid < high is 0 at low,
\* 1 at mid and 0 at high.
C1_Points ==
  (TriDone("normal") /\ low < mid /\ mid < high) =>
    /\ IsOk(result)
    /\ inputval = low => Eq(result, Zero)
    /\ inputval = mid => Eq(result, One)
    /\ inputval = high => Eq(result, Zero)

\* C1, second half: evaluating the same triangle at a larger value never
\* lowers the degree inside [low, mid] and never raises it inside [mid, high].
C1_Monotone ==
  (TriDone("normal") /\ low < mid /\ mid < high /\ m_pc' = "done") =>
    /\ (low <= inputval /\ inputval' <= mid) => Leq(result, result')
    /\ (mid <= inputval /\ inputval' <= high) => Leq(result', result)

\* C1: for triangular(value, (low, mid, high), kind="normal") with
\* low < mid < high the result is 0 at low, 1 at mid, 0 at high, is
\* non-decreasing on [low, mid] and non-increasing on [mid, high].
C1_TriangularNormal == [](C1_Points) /\ [][C1_Monotone]_vars

\* C1 witness: a degree strictly between 0 and 1 on the rising ramp.
C1_Witness ==
  /\ TriDone("normal") /\ low < inputval /\ inputval < mid /\ mid < high
  /\ IsOk(result) /\ Lt(Zero, result) /\ Lt(result, One)

\* C2 as stated: for a left shoulder with low <= mid <= high the result is
\* 1 for every value <= mid, 0 for every value >= high and
\* (high - value)/(high - mid) in between.
C2_Original ==
  (TriDone("left-shoulder") /\ TriValid) =>
    /\ IsOk(result)
    /\ inputval <= mid => Eq(result, One)
    /\ inputval >= high => Eq(result, Zero)
    /\ (mid < inputval /\ inputval < high) =>
         Eq(result, Div(high - inputval, high - mid))

\* C2 amended: for a left shoulder with low <= mid <= high the result is 1
\* for every value <= mid that is below high or at most low, 0 for every
\* value >= high that is above low, and (high - value)/(high - mid) for
\* mid < value < high; at value == mid == high it is 0 when low < mid and 1
\* when low == mid == high.
C2_LeftShoulder ==
  (TriDone("left-shoulder") /\ TriValid) =>
    /\ IsOk(result)
    /\ (inputval <= mid /\ (inputval < high \/ inputval <= low)) =>
         Eq(result, One)
    /\ (inputval >= high /\ inputval > low) => Eq(result, Zero)
    /\ (mid < inputval /\ inputval < high) =>
         Eq(result, Div(high - inputval, high - mid))
    /\ (inputval = mid /\ mid = high /\ low < mid) => Eq(result, Zero)
    /\ (inputval = mid /\ mid = high /\ low = mid) => Eq(result, One)

\* C2 witness: the degenerate left shoulder evaluated at value == mid == high.
C2_Witness ==
  /\ TriDone("left-shoulder") /\ TriValid
  /\ inputval = mid /\ mid = high /\ low = mid
  /\ IsOk(result) /\ Eq(result, One)

\* C3 as stated: for a right shoulder with low <= mid <= high the result is
\* 1 for every value >= mid, 0 for every value <= low and
\* (value - low)/(mid - low) in between.
C3_Original ==
  (TriDone("right-shoulder") /\ TriValid) =>
    /\ IsOk(result)
    /\ inputval >= mid => Eq(result, One)
    /\ inputval <= low => Eq(result, Zero)
    /\ (low < inputval /\ inputval < mid) =>
         Eq(result, Div(inputval - low, mid - low))

\* C3 amended: for a right shoulder with low <= mid <= high the result is 1
\* for every value >= mid that is above low or at least high, 0 for every
\* value <= low that is below high, and (value - low)/(mid - low) for
\* low < value < mid; at value == low == mid it is 0 when mid < high and 1
\* when low == mid == high.
C3_RightShoulder ==
  (TriDone("right-shoulder") /\ TriValid) =>
    /\ IsOk(result)
    /\ (inputval >= mid /\ (inputval > low \/ inputval >= high)) =>
         Eq(result, One)
    /\ (inputval <= low /\ inputval < high) => Eq(result, Zero)
    /\ (low < inputval /\ inputval < mid) =>
         Eq(result, Div(inputval - low, mid - low))
    /\ (inputval = mid /\ mid = low /\ mid < high) => Eq(result, Zero)
    /\ (inputval = mid /\ mid = low /\ mid = high) => Eq(result, One)

\* C3 witness: the degenerate right shoulder evaluated at value == low == mid.
C3_Witness ==
  /\ TriDone("right-shoulder") /\ TriValid
  /\ inputval = mid /\ mid = low /\ mid = high
  /\ IsOk(result) /\ Eq(result, One)

\* C4: for trapezoidal(value, (a, b, c, d)) with a <= b <= c <= d the result
\* is 0 below a and above d, 1 on [b, c], (value - a)/(b - a) on [a, b),
\* (d - value)/(d - c) on (c, d], and 1 at a degenerate edge (a == b or
\* c == d); no division by zero happens.
C4_Trapezoidal ==
  (TrapDone /\ TrapValid) =>
    LET a == params[1]
        b == params[2]
        c == params[3]
        d == params[4]
    IN /\ IsOk(result)
       /\ (inputval < a \/ inputval > d) => Eq(result, Zero)
       /\ (b <= inputval /\ inputval <= c) => Eq(result, One)
       /\ (a <= inputval /\ inputval < b) =>
            Eq(result, Div(inputval - a, b - a))
       /\ (c < inputval /\ inputval <= d) =>
            Eq(result, Div(d - inputval, d - c))
       /\ (a = b /\ inputval = a) => Eq(result, One)
       /\ (c = d /\ inputval = d) => Eq(result, One)

\* C4 witness: a trapezoid with a == b evaluated on that vertical edge.
C4_Witness ==
  /\ TrapDone /\ TrapValid
  /\ params[1] = params[2] /\ inputval = params[1] /\ params[2] < params[3]
  /\ IsOk(result) /\ Eq(result, One)

\* C5: a triple not satisfying low <= mid <= high makes triangular raise,
\* for every kind and every value, and a 4-tuple not satisfying
\* a <= b <= c <= d makes trapezoidal raise, for every value.
C5_Validation ==
  /\ (m_pc = "done" /\ Len(params) = 3 /\ ~TriValid) => result = ValueError
  /\ (TrapDone /\ ~TrapValid) => result = ValueError

\* C5 witness: an invalid triple rejected on the left shoulder's flat side.
C5_Witness ==
  /\ TriDone("left-shoulder") /\ ~TriValid /\ inputval <= low
  /\ result = ValueError

\* ------------------------------------------------- fuzzifier claims
\* The declared terms: the entries other than "range", in declared order.
IsDeclared(e) == e.label # "range"
Declared == SelectSeq(linguistic_terms, IsDeclared)
BadLength(e) == Len(e.params) # 3 /\ Len(e.params) # 4
HasBadLength == \E j \in 1..Len(Declared) : BadLength(Declared[j])
FirstBad == CHOOSE j \in 1..Len(Declared) :
              /\ BadLength(Declared[j])
              /\ \A h \in 1..(j - 1) : ~BadLength(Declared[h])
Rejected(e) ==
  \/ BadLength(e)
  \/ \E h \in 1..(Len(e.params) - 1) : e.params[h] > e.params[h + 1]
PositionKind(j, n) ==
  IF j = 1 THEN "left-shoulder"
  ELSE IF j = n THEN "right-shoulder"
  ELSE "normal"

\* C6: fuzzify_variable raises only for a declared term it must reject and
\* otherwise returns exactly one entry per declared term (the "range"
\* entry is skipped and holds no position); with n >= 2 declared
\* terms, a 3-parameter term at position i is the triangular degree as
\* left-shoulder when i == 0, right-shoulder when i == n-1 and normal
\* otherwise, and a 4-parameter term is the trapezoidal degree.
C6_FuzzifyVariable ==
  /\ f_pc = "raised" => \E j \in 1..Len(Declared) : Rejected(Declared[j])
  /\ f_pc = "returned" =>
    LET n == Len(Declared)
    IN /\ IsOk(ret)
       /\ DOMAIN ret.map = {Declared[j].label : j \in 1..n}
       /\ n >= 2 =>
            \A j \in 1..n :
              LET e == Declared[j]
              IN /\ Len(e.params) = 3 =>
                      ret.map[e.label] =
                        triangular(value, e.params, PositionKind(j, n))
                 /\ Len(e.params) = 4 =>
                      ret.map[e.label] = trapezoidal(value, e.params)

\* C6 witness: three triangular terms and a "range" entry declared before
\* the last term, with a value on which the three kinds differ.
C6_Witness ==
  /\ f_pc = "returned" /\ Len(Declared) = 3
  /\ Len(linguistic_terms) = 4 /\ linguistic_terms[3].label = "range"
  /\ \A j \in 1..3 : Declared[j].params = <<0, 2, 4>>
  /\ value = 5
  /\ Eq(ret.map["low"], Zero) /\ Eq(ret.map["normal"], Zero)
  /\ Eq(ret.map["high"], One)

\* C7: when some declared term's tuple has a length other than 3 or 4 the
\* call never returns a mapping: the loop does not pass that term, and the
\* call ends with an error.
C7_BadLengthFails ==
  HasBadLength =>
    /\ f_pc # "returned"
    /\ ~IsOk(ret)
    /\ f_pc = "loop" => i < FirstBad
    /\ f_pc = "raised" => ret = ValueError

\* C7 witness: the error is raised after an earlier valid term was stored.
C7_Witness ==
  /\ f_pc = "raised" /\ HasBadLength /\ FirstBad = 2 /\ i = 1
  /\ DOMAIN fuzzified_values = {"low"}
  /\ ret = ValueError

\* C10: every degree returned by triangular (any kind) and trapezoidal for
\* non-decreasing parameters, and every value of the mapping returned by
\* fuzzify_variable, lies in [0, 1].
C10_UnitInterval ==
  /\ (m_pc = "done" /\ Len(params) = 3 /\ TriValid) => InUnit(result)
  /\ (TrapDone /\ TrapValid) => InUnit(result)
  /\ f_pc = "returned" =>
       \A t \in DOMAIN ret.map : InUnit(ret.map[t])
  /\ f_pc \in {"loop", "raised"} =>
       \A t \in DOMAIN fuzzified_values : InUnit(fuzzified_values[t])

\* C10 witness: a degenerate triple evaluated far outside its range.
C10_Witness ==
  /\ TriDone("normal") /\ low = mid /\ mid < high
  /\ inputval > high + 1
  /\ Eq(result, Zero)

\* C11: for a normal triangle with low <= mid <= high the result at
\* value == low and at value == high is 0 even when low == mid or
\* mid == high, so a triple low == mid == high yields 0 everywhere; and for
\* valid parameters no kind of triangular divides by a zero-width ramp.
C11_SharpCutoff ==
  (m_pc = "done" /\ Len(params) = 3 /\ TriValid) =>
    /\ result # ZeroDivisionError
    /\ IsOk(result)
    /\ (kind = "normal" /\ (inputval = low \/ inputval = high)) =>
         Eq(result, Zero)
    /\ (kind = "normal" /\ low = high) => Eq(result, Zero)

\* C11 witness: the fully degenerate normal triangle evaluated at its peak.
C11_Witness ==
  /\ TriDone("normal") /\ low = mid /\ mid = high /\ inputval = mid
  /\ IsOk(result) /\ Eq(result, Zero)

Init == MInit \/ FInit \/ AInit
Next == MNext \/ FNext \/ ANext
Spec == Init /\ [][Next]_vars

====
